---- MODULE Spec2Model ----
(***************************************************************************)
(* A model of mmussomele/crypto: the rand, primes and rsa packages.        *)
(*                                                                         *)
(* math/big integers are unbounded; TLC's are 32 bits wide.  The widths    *)
(* the program fixes are therefore scaled down and named:                  *)
(*   MinBits  stands for the 64 of  `if bits < 64 { panic }`  (rsa.go:60)  *)
(*   Rounds   stands for the 128 passed to primes.Find/FindNext/           *)
(*            FindPrevious                       (rsa.go:298,317,332)      *)
(*   EBits    stands for the 16 of  E = (1 << 16) + 1        (rsa.go:48)   *)
(* Bytes keep their 8 bits.                                                *)
(***************************************************************************)
EXTENDS Integers, Sequences, FiniteSets, TLC

VARIABLES
    pc,     \* where NewKey / genSecrets / rand.Int stands
    bits,   \* NewKey's argument
    p,      \* genSecrets: the first prime
    q,      \* genSecrets: the second prime
    n,      \* genSecrets: p*q
    qn,     \* genSecrets: the random start of the search for q
    s,      \* FindNext / FindPrevious: the candidate under test
    i,      \* Is: the number of rounds the candidate has passed
    priv,   \* the *PrivateKey NewKey returns (<<>> is nil)
    arg,    \* the arguments of the call in progress
    ret,    \* what the call returned
    mutex,  \* package rand: the mutex l, 0 when free, else the caller holding it
    reader, \* package rand: the shared reader, "nil" until the device is opened
    stream, \* the entropy device: how often it was opened, how far it was read
    heap    \* the big.Int objects pointers lead to: address -> value

vars == <<pc, bits, p, q, n, qn, s, i, priv, arg, ret, mutex, reader, stream, heap>>

sharedVars == <<mutex, reader, stream, heap>>

keyVars == <<bits, p, q, n, qn, s, i, priv>>

-----------------------------------------------------------------------------
(* Bounds of the model *)

MinBits == 11
MaxBits == 12
Rounds == 2
EBits == 4

-----------------------------------------------------------------------------
(* math/big *)

Abs(x) == IF x < 0 THEN -x ELSE x

RECURSIVE Pow2(_)
Pow2(k) == IF k <= 0 THEN 1 ELSE 2 * Pow2(k - 1)

\* big.Int.BitLen: the length of the absolute value in bits; 0 for 0.
RECURSIVE BitLen(_)
BitLen(x) == IF x = 0 THEN 0 ELSE 1 + BitLen(Abs(x) \div 2)

\* big.Int.Bit(k) of a non-negative x.
Bit(x, k) == (x \div Pow2(k)) % 2

\* big.Int.SetBit(x, k, b) of a non-negative x.
SetBit(x, k, b) ==
    IF Bit(x, k) = b THEN x
    ELSE IF b = 1 THEN x + Pow2(k) ELSE x - Pow2(k)

\* The member of a one-element set.  Binding a value as {f(v) : v \in {e}}
\* has e evaluated once, where an operator argument is evaluated at each use.
Only(S) == CHOOSE v \in S : TRUE

\* (x * y) mod m for 0 <= x, y < m without leaving 32 bits: by doubling.
RECURSIVE MulModLoop(_, _, _)
MulModLoop(x, y, m) ==
    IF y = 0 THEN 0
    ELSE Only({LET d2 == ((h - m) + h) % m
               IN  IF y % 2 = 1 THEN ((d2 - m) + x) % m ELSE d2 :
                 h \in {MulModLoop(x, y \div 2, m)}})

\* big.Int.Mul followed by Mod: (x * y) mod m, for m > 0.
MulMod(x, y, m) ==
    IF m <= 46340 THEN ((x % m) * (y % m)) % m
    ELSE Only({MulModLoop(a, b, m) : a \in {x % m}, b \in {y % m}})

RECURSIVE ExpLoop(_, _, _)
ExpLoop(x, y, m) ==
    IF y <= 0 THEN 1 % m
    ELSE Only({IF y % 2 = 1 THEN MulMod(h2, x, m) ELSE h2 :
                 h2 \in {MulMod(h, h, m) : h \in {ExpLoop(x, y \div 2, m)}}})

\* big.Int.Exp(x, y, m) for m > 0: x^y mod m, and 1 mod m for y <= 0.
Exp(x, y, m) == Only({ExpLoop(a, b, m) : a \in {x}, b \in {y}})

\* big.Int.GCD(x, y, a, b) for a, b > 0: <<g, x, y>> with g = a*x + b*y, the
\* cofactors being those of Euclid's algorithm.
RECURSIVE GCD(_, _)
GCD(a, b) ==
    IF b = 0 THEN <<a, 1, 0>>
    ELSE LET r == GCD(b, a % b)
         IN  <<r[1], r[3], r[2] - (a \div b) * r[3]>>

\* big.Int.ModInverse(g, m): <<>> (nil) when g and m are not coprime.
ModInverse(g, m) ==
    LET r == GCD(g, m)
    IN  IF r[1] # 1 THEN <<>>
        ELSE IF r[2] < 0 THEN <<r[2] + m>> ELSE <<r[2]>>

-----------------------------------------------------------------------------
(* package rand *)

\* The candidate as read, no bit cleared.
CandidateUnmasked(max, buf) == buf

\* rand.Int, one pass of its loop: the candidate made of the bytes read (buf,
\* big-endian, as a number) with the bits from BitLen(max-1) upwards cleared.
Candidate(max, buf) == buf % Pow2(BitLen(max - 1))

\* rand.Int: the number of bytes each pass reads.
BufLen(max) == (BitLen(max - 1) + 7) \div 8

\* rand.Int: the values a call can return.  A pass returns its candidate when
\* it is below max and reads again otherwise; no pass can return for max <= 0.
rand_Int(max) == {c \in 0 .. Pow2(BitLen(max - 1)) - 1 : c < max}

-----------------------------------------------------------------------------
(* package primes *)

\* trailingZeroes of a > 0.
RECURSIVE trailingZeroes(_)
trailingZeroes(a) == IF a % 2 = 1 THEN 0 ELSE 1 + trailingZeroes(a \div 2)

\* One iteration of Jacobi's loop with the sign of the 2-adic part taken for
\* b = 3 or 7 (mod 8).
JacobiIterSign37(a, b, sg) ==
    IF b = 1 \/ a = 1 THEN [done |-> TRUE, val |-> sg]
    ELSE LET am == a % b
         IN  IF am = 0 THEN [done |-> TRUE, val |-> 0]
             ELSE LET tz == trailingZeroes(am)
                      c == am \div Pow2(tz)
                      s1 == IF tz % 2 = 1 /\ (b % 8) \in {3, 7} THEN -sg ELSE sg
                      s2 == IF c % 4 = 3 /\ b % 4 = 3 THEN -s1 ELSE s1
                  IN  [done |-> FALSE, a |-> b, b |-> c, s |-> s2]

\* One iteration of Jacobi's loop: it returns (done, val) or goes on with the
\* new a, b and sign s.
JacobiIter(a, b, sg) ==
    IF b = 1 \/ a = 1 THEN [done |-> TRUE, val |-> sg]
    ELSE LET am == a % b
         IN  IF am = 0 THEN [done |-> TRUE, val |-> 0]
             ELSE LET tz == trailingZeroes(am)
                      c == am \div Pow2(tz)
                      s1 == IF tz % 2 = 1 /\ (b % 8) \in {3, 5} THEN -sg ELSE sg
                      s2 == IF c % 4 = 3 /\ b % 4 = 3 THEN -s1 ELSE s1
                  IN  [done |-> FALSE, a |-> b, b |-> c, s |-> s2]

\* Jacobi's loop.
RECURSIVE JacobiLoop(_, _, _)
JacobiLoop(a, b, sg) ==
    Only({IF r.done THEN r.val ELSE JacobiLoop(r.a, r.b, r.s) :
            r \in {JacobiIter(a, b, sg)}})

Jacobi(a, b) == JacobiLoop(a, b, 1)

\* A round that only tests the Jacobi symbol against 0.
IsRoundJacobiOnly(c, a) == Jacobi(a, c) # 0

\* A round that compares a^((p-1)/2) mod p with j itself, -1 not mapped to p-1.
IsRoundSignedJacobi(c, a) ==
    LET j == Jacobi(a, c)
    IN  j # 0 /\ Exp(a, (c - 1) \div 2, c) = j

\* Is, one round with the witness a: TRUE when the round does not return false.
IsRound(c, a) ==
    LET pow == (c - 1) \div 2
        j == Jacobi(a, c)
    IN  /\ j # 0
        /\ Exp(a, pow, c) = j % c

\* Is: the witnesses a round can draw, rand.Int(p - 2) + 2.
Witnesses(c) == {r + 2 : r \in rand_Int(c - 2)}

\* Find: the candidate handed to FindNext, made of the bytes read.
Find(b, buf) == IF BitLen(buf) < b THEN SetBit(buf, b - 1, 1) ELSE buf

\* FindNext: the first candidate.
FindNext(start) == SetBit(start, 0, 1)

\* FindPrevious: the first candidate.
FindPrevious(start) == IF Bit(start, 0) = 0 THEN start - 1 ELSE start

-----------------------------------------------------------------------------
(* package rsa: key generation *)

\* E, the chosen encryption exponent: (1 << 16) + 1 in the source.
E == Pow2(EBits) + 1

\* NewKey: lcd = lambda(n) = (p-1)(q-1) / gcd(p-1, q-1).
lcd(pp, qq) == ((pp - 1) * (qq - 1)) \div GCD(pp - 1, qq - 1)[1]

\* NewKey: gcd = GCD(nil, d, lcd, e), the gcd of lcd and e.
gcdE(pp, qq) == GCD(lcd(pp, qq), E)[1]

\* d taken as the cofactor of lcd, as GCD(d, nil, lcd, e) would set it.
dOfCofactorOfLcd(pp, qq) == GCD(lcd(pp, qq), E)[2]

\* NewKey: the d of GCD(nil, d, lcd, e): the cofactor of e.
dOf(pp, qq) == GCD(lcd(pp, qq), E)[3]

\* NewKey: the key it assembles from what genSecrets returned.
PrivateKey(pp, qq, nn, b) ==
    LET d == dOf(pp, qq)
    IN  [n |-> nn, e |-> E, d |-> d, p |-> pp, q |-> qq,
         dP |-> d % (pp - 1), dQ |-> d % (qq - 1),
         qInv |-> ModInverse(qq, pp), bits |-> b]

\* qMin with the shift one too far: 2^bits / p.
qMinShiftedByBits(b, pp) == Pow2(b) \div pp

\* genSecrets: qMin = 2^(bits-1) / p.
qMin(b, pp) == Pow2(b - 1) \div pp

\* The values NewKey is called with: the smallest one panics.
BitsArgs == (MinBits - 1) .. MaxBits

Init ==
    /\ pc = "idle"
    /\ bits = 0 /\ p = 0 /\ q = 0 /\ n = 0 /\ qn = 0 /\ s = 0 /\ i = 0
    /\ priv = <<>>
    /\ arg = <<>> /\ ret = <<>>
    /\ mutex = 0 /\ reader = "nil" /\ stream = <<>> /\ heap = <<>>

\* NewKey(b) with b below the minimum panics.
NewKeyPanic ==
    /\ pc = "idle"
    /\ \E b \in BitsArgs :
          /\ b < MinBits
          /\ bits' = b
    /\ pc' = "panic"
    /\ UNCHANGED <<p, q, n, qn, s, i, priv, arg, ret>>
    /\ UNCHANGED sharedVars

\* NewKey(b) enters its loop and calls genSecrets.
NewKey ==
    /\ pc = "idle"
    /\ \E b \in BitsArgs :
          /\ b >= MinBits
          /\ bits' = b
    /\ pc' = "genSecrets"
    /\ UNCHANGED <<p, q, n, qn, s, i, priv, arg, ret>>
    /\ UNCHANGED sharedVars

\* genSecrets calls primes.Find(bits/2+1, 128): Find reads (b+7)/8 bytes and
\* FindNext starts at the candidate with bit 0 set.
genSecretsFind ==
    /\ pc = "genSecrets"
    /\ LET b == bits \div 2 + 1
       IN  \E buf \in 0 .. Pow2(8 * ((b + 7) \div 8)) - 1 :
              s' = FindNext(Find(b, buf))
    /\ i' = 0
    /\ pc' = "FindP"
    /\ UNCHANGED <<bits, p, q, n, qn, priv, arg, ret>>
    /\ UNCHANGED sharedVars

Searching == pc \in {"FindP", "FindNextQ", "FindPreviousQ"}

\* Is: one round of the loop passes.
IsRoundPass ==
    /\ Searching
    /\ i < Rounds
    /\ \E a \in Witnesses(s) : IsRound(s, a)
    /\ i' = i + 1
    /\ UNCHANGED <<pc, bits, p, q, n, qn, s, priv, arg, ret>>
    /\ UNCHANGED sharedVars

\* Is: one round returns false; FindNext goes on to s+2, FindPrevious to s-2.
IsRoundFail ==
    /\ Searching
    /\ i < Rounds
    /\ \E a \in Witnesses(s) : ~IsRound(s, a)
    /\ s' = IF pc = "FindPreviousQ" THEN s - 2 ELSE s + 2
    /\ i' = 0
    /\ UNCHANGED <<pc, bits, p, q, n, qn, priv, arg, ret>>
    /\ UNCHANGED sharedVars

\* Find returned p: genSecrets draws qn = qMin + rand.Int(qMin) and calls
\* FindNext(qn, 128).
genSecretsQn ==
    /\ pc = "FindP"
    /\ i = Rounds
    /\ p' = s
    /\ \E r \in rand_Int(qMin(bits, s)) : qn' = r + qMin(bits, s)
    /\ s' = FindNext(qn')
    /\ i' = 0
    /\ pc' = "FindNextQ"
    /\ UNCHANGED <<bits, q, n, priv, arg, ret>>
    /\ UNCHANGED sharedVars

\* FindNext returned q and n = p*q has the bits asked for: genSecrets returns.
genSecretsReturn ==
    /\ pc = "FindNextQ"
    /\ i = Rounds
    /\ BitLen(p * s) = bits
    /\ q' = s
    /\ n' = p * s
    /\ pc' = "NewKey"
    /\ UNCHANGED <<bits, p, qn, s, i, priv, arg, ret>>
    /\ UNCHANGED sharedVars

\* FindNext returned q and n = p*q has fewer bits: panic(nb).
genSecretsPanic ==
    /\ pc = "FindNextQ"
    /\ i = Rounds
    /\ BitLen(p * s) < bits
    /\ q' = s
    /\ n' = p * s
    /\ pc' = "panic"
    /\ UNCHANGED <<bits, p, qn, s, i, priv, arg, ret>>
    /\ UNCHANGED sharedVars

\* FindNext returned q and n = p*q has more bits: genSecrets calls
\* FindPrevious(qn, 128).
genSecretsOvershoot ==
    /\ pc = "FindNextQ"
    /\ i = Rounds
    /\ BitLen(p * s) > bits
    /\ q' = s
    /\ n' = p * s
    /\ s' = FindPrevious(qn)
    /\ i' = 0
    /\ pc' = "FindPreviousQ"
    /\ UNCHANGED <<bits, p, qn, priv, arg, ret>>
    /\ UNCHANGED sharedVars

\* FindPrevious returned q: genSecrets returns p, q, n = p*q unchecked.
genSecretsPrevious ==
    /\ pc = "FindPreviousQ"
    /\ i = Rounds
    /\ q' = s
    /\ n' = p * s
    /\ pc' = "NewKey"
    /\ UNCHANGED <<bits, p, qn, s, i, priv, arg, ret>>
    /\ UNCHANGED sharedVars

\* NewKey: gcd(e, lambda(n)) != 1, continue: the loop calls genSecrets again.
NewKeyContinue ==
    /\ pc = "NewKey"
    /\ gcdE(p, q) # 1
    /\ pc' = "genSecrets"
    /\ p' = 0 /\ q' = 0 /\ n' = 0 /\ qn' = 0 /\ s' = 0 /\ i' = 0
    /\ UNCHANGED <<bits, priv, arg, ret>>
    /\ UNCHANGED sharedVars

\* NewKey: gcd(e, lambda(n)) = 1, the key is assembled and returned.
NewKeyReturn ==
    /\ pc = "NewKey"
    /\ gcdE(p, q) = 1
    /\ priv' = <<PrivateKey(p, q, n, bits)>>
    /\ pc' = "done"
    /\ UNCHANGED <<bits, p, q, n, qn, s, i, arg, ret>>
    /\ UNCHANGED sharedVars

Next ==
    \/ NewKeyPanic
    \/ NewKey
    \/ genSecretsFind
    \/ IsRoundPass
    \/ IsRoundFail
    \/ genSecretsQn
    \/ genSecretsReturn
    \/ genSecretsPanic
    \/ genSecretsOvershoot
    \/ genSecretsPrevious
    \/ NewKeyContinue
    \/ NewKeyReturn

Spec == Init /\ [][Next]_vars

-----------------------------------------------------------------------------
(* Properties of the keys NewKey returns *)

\* x is a prime number.
IsPrime(x) == x >= 2 /\ \A d \in 2 .. x - 1 : d * d > x \/ x % d # 0

Returned == pc = "done"

\* C1: every key NewKey(bits) returns has n = p*q and BitLen(n) = bits, the
\* bits asked for, whether q came from FindNext(qn) or, after an overshoot,
\* from FindPrevious(qn).
C1_ModulusHasBits ==
    Returned =>
        /\ priv[1].n = priv[1].p * priv[1].q
        /\ priv[1].p = p /\ priv[1].q = q /\ priv[1].n = n
        /\ BitLen(priv[1].n) = bits
        /\ priv[1].bits = bits

\* A key is returned whose q is below qn: it came from FindPrevious.
C1_Witness == Returned /\ priv[1].q < qn

\* C2: every key NewKey returns has e = E and (d*e) mod lcm(p-1, q-1) = 1;
\* no key is returned for a pair with gcd(e, lcm(p-1, q-1)) # 1.
C2_PrivateExponent ==
    Returned =>
        /\ priv[1].e = E
        /\ GCD(E, lcd(priv[1].p, priv[1].q))[1] = 1
        /\ (priv[1].d * priv[1].e) % lcd(priv[1].p, priv[1].q) = 1

\* A key is returned whose d is the negative cofactor Euclid's algorithm gives.
C2_Witness == Returned /\ priv[1].d < 0

\* C3: every key NewKey returns has p # q; stated for the keys whose p and q
\* are prime, where p # q is gcd(p, q) = 1.
C3_DistinctPrimes ==
    (Returned /\ IsPrime(priv[1].p) /\ IsPrime(priv[1].q)) =>
        /\ priv[1].p # priv[1].q
        /\ GCD(priv[1].p, priv[1].q)[1] = 1

-----------------------------------------------------------------------------
(* package rsa: the raw operation *)

\* PrivateKey.PublicKey.
PublicKey(k) == [n |-> k.n, e |-> k.e, bits |-> k.bits]

\* encrypt: m^e mod n.
encrypt(pub, m) == Exp(m, pub.e, pub.n)

\* decrypt with the difference m2 - m1 in place of m1 - m2.
decryptSwapped(k, c) ==
    LET m1 == Exp(c, k.dP, k.p)
        m2 == Exp(c, k.dQ, k.q)
        h == MulMod(m2 - m1, k.qInv[1], k.p)
    IN  h * k.q + m2

\* decrypt: m2 + q * (qInv * (m1 - m2) mod p), with m1 = c^dP mod p and
\* m2 = c^dQ mod q.
decrypt(k, c) ==
    LET m1 == Exp(c, k.dP, k.p)
        m2 == Exp(c, k.dQ, k.q)
        h == MulMod(m1 - m2, k.qInv[1], k.p)
    IN  h * k.q + m2

\* How far above its lower end each window of primes reaches.
RawSpan == 10

\* The primes of lo .. lo + span.
PrimesFrom(lo, span) == {x \in lo .. lo + span : IsPrime(x)}

\* Keys NewKey(b) returns, with p and q distinct primes: p has at least
\* b/2 + 1 bits as Find leaves it, q lies in (qMin, 2*qMin) as FindNext(qn)
\* finds it, and n has b bits.
KeysOf(b, span) ==
    {PrivateKey(pq[1], pq[2], pq[1] * pq[2], b) :
        pq \in {x \in UNION {{<<pp, qq>> : qq \in PrimesFrom(qMin(b, pp) + 1, span)} :
                               pp \in PrimesFrom(Pow2(b \div 2), span)} :
                  /\ x[1] # x[2]
                  /\ x[2] < 2 * qMin(b, x[1])
                  /\ BitLen(x[1] * x[2]) = b
                  /\ gcdE(x[1], x[2]) = 1}}

RawKeys == UNION {KeysOf(b, RawSpan) : b \in MinBits .. MaxBits}

InitRaw ==
    /\ pc = "key"
    /\ priv \in {<<k>> : k \in RawKeys}
    /\ bits = priv[1].bits /\ p = priv[1].p /\ q = priv[1].q /\ n = priv[1].n
    /\ qn = 0 /\ s = 0 /\ i = 0
    /\ arg = <<>> /\ ret = <<>>
    /\ mutex = 0 /\ reader = "nil" /\ stream = <<>> /\ heap = <<>>

\* c = encrypt(priv.PublicKey(), m) for a message m below n.
encryptCall ==
    /\ pc = "key"
    /\ \E m \in 0 .. priv[1].n - 1 :
          /\ arg' = [m |-> m]
          /\ ret' = encrypt(PublicKey(priv[1]), m)
    /\ pc' = "encrypted"
    /\ UNCHANGED keyVars
    /\ UNCHANGED sharedVars

\* d = decrypt(priv, c) of the c that encrypt returned.
decryptCall ==
    /\ pc = "encrypted"
    /\ arg' = [m |-> arg.m, c |-> ret]
    /\ ret' = decrypt(priv[1], ret)
    /\ pc' = "decrypted"
    /\ UNCHANGED keyVars
    /\ UNCHANGED sharedVars

NextRaw == encryptCall \/ decryptCall

SpecRaw == InitRaw /\ [][NextRaw]_vars

\* The key is one the claim speaks of: distinct primes, n = p*q,
\* d*e = 1 mod lcm(p-1, q-1), dP, dQ and qInv as defined.
ValidKey(k) ==
    /\ IsPrime(k.p) /\ IsPrime(k.q) /\ k.p # k.q
    /\ k.n = k.p * k.q
    /\ (k.d * k.e) % lcd(k.p, k.q) = 1
    /\ k.dP = k.d % (k.p - 1)
    /\ k.dQ = k.d % (k.q - 1)
    /\ k.qInv # <<>>
    /\ (k.qInv[1] * k.q) % k.p = 1

\* C4: for such a key and every m with 0 <= m < n, decrypt(encrypt(m)) = m.
C4_RawRoundTrip ==
    /\ ValidKey(priv[1])
    /\ pc = "encrypted" => ret \in 0 .. priv[1].n - 1
    /\ pc = "decrypted" => ret = arg.m

\* A message that p divides came back, under a key whose d is negative.
C4_Witness ==
    /\ pc = "decrypted"
    /\ arg.m > 0
    /\ arg.m % priv[1].p = 0
    /\ priv[1].d < 0
    /\ ret = arg.m

-----------------------------------------------------------------------------
(* package rsa: OAEP *)

\* []byte and big.Int: Int.Bytes, the big-endian bytes without leading zeros.
RECURSIVE Bytes(_)
Bytes(x) == IF x = 0 THEN <<>> ELSE Append(Bytes(x \div 256), x % 256)

\* Int.SetBytes: the number a big-endian byte slice spells.
RECURSIVE SetBytes(_)
SetBytes(b) ==
    IF b = <<>> THEN 0
    ELSE SetBytes(SubSeq(b, 1, Len(b) - 1)) * 256 + b[Len(b)]

\* make([]byte, k): k zero bytes.
Zeros(k) == [j \in 1 .. k |-> 0]

\* a ^ b on the low k bits.
RECURSIVE XorBits(_, _, _)
XorBits(a, b, k) ==
    IF k = 0 THEN 0
    ELSE ((a + b) % 2) + 2 * XorBits(a \div 2, b \div 2, k - 1)

\* for i := range a { a[i] ^= b[i] }
XorBytes(a, b) == [j \in 1 .. Len(a) |-> XorBits(a[j], b[j], 8)]

\* bytes.HasPrefix.
HasPrefix(b, prefix) ==
    Len(b) >= Len(prefix) /\ SubSeq(b, 1, Len(prefix)) = prefix

\* bytes.TrimLeft(b, "\x00").
RECURSIVE TrimLeftZeros(_)
TrimLeftZeros(b) ==
    IF b # <<>> /\ b[1] = 0 THEN TrimLeftZeros(Tail(b)) ELSE b

\* The hash.Hash the caller passes: h.Reset(); h.Write(z); h.Sum(nil), for a
\* hash of h.Size() = hs bytes.  A stand-in digest: a function of z alone.
RECURSIVE Digest(_, _)
Digest(z, acc) ==
    IF z = <<>> THEN acc
    ELSE Digest(Tail(z), (acc * 31 + z[1] + 1) % 256)

Sum(hs, z) == [k \in 1 .. hs |-> Digest(z, (89 * k + Len(z)) % 256)]

\* binary.BigEndian.PutUint32(b, c).
PutUint32(c) ==
    <<(c \div 16777216) % 256, (c \div 65536) % 256, (c \div 256) % 256, c % 256>>

\* mgf's loop: the digests of z || counter for the counters c .. cnt-1.
RECURSIVE mgfBlocks(_, _, _, _)
mgfBlocks(hs, z, c, cnt) ==
    IF c >= cnt THEN <<>>
    ELSE Sum(hs, z \o PutUint32(c)) \o mgfBlocks(hs, z, c + 1, cnt)

\* mgf(h, z, l).
mgf(hs, z, l) ==
    LET cnt == (l \div hs) + (IF l % hs # 0 THEN 1 ELSE 0)
    IN  SubSeq(mgfBlocks(hs, z, 0, cnt), 1, l)

\* oaepEncode(h, m, p, l) with the seed rand.Read filled in: [em, err].
oaepEncode(hs, m, lab, l, seed) ==
    IF Len(m) > l - 2 * hs - 1 THEN [em |-> <<>>, err |-> "ErrEncoding"]
    ELSE LET padLen == l - Len(m) - 2 * hs - 1
             ps == IF padLen > 0 THEN Zeros(padLen) ELSE <<>>
             db == Sum(hs, lab) \o ps \o <<1>> \o m
             dbm == mgf(hs, seed, l - hs)
         IN  IF Len(db) # Len(dbm) THEN [em |-> <<>>, err |-> "panic"]
             ELSE LET mdb == XorBytes(db, dbm)
                      sm == mgf(hs, mdb, hs)
                  IN  IF Len(seed) # Len(sm) THEN [em |-> <<>>, err |-> "panic"]
                      ELSE [em |-> XorBytes(seed, sm) \o mdb, err |-> "nil"]

\* oaepDecode's end, once the data block is unmasked: the label check and the
\* trimming.  Here the hash prefix is cut off without being compared.
oaepUnpadUnchecked(db, ps) ==
    LET rest == TrimLeftZeros(SubSeq(db, Len(ps) + 1, Len(db)))
    IN  IF rest = <<>> \/ rest[1] # 1
        THEN [m |-> <<>>, err |-> "ErrDecoding"]
        ELSE [m |-> Tail(rest), err |-> "nil"]

\* Here the separator byte is returned with the message.
oaepUnpadKeepsSeparator(db, ps) ==
    IF ~HasPrefix(db, ps) THEN [m |-> <<>>, err |-> "ErrDecoding"]
    ELSE LET rest == TrimLeftZeros(SubSeq(db, Len(ps) + 1, Len(db)))
         IN  IF rest = <<>> \/ rest[1] # 1
             THEN [m |-> <<>>, err |-> "ErrDecoding"]
             ELSE [m |-> rest, err |-> "nil"]

\* oaepDecode's end (from h.Reset() on): db must begin with ps = hash(p); the
\* prefix and the zero bytes after it are trimmed and a 0x01 must follow.
oaepUnpad(db, ps) ==
    IF ~HasPrefix(db, ps) THEN [m |-> <<>>, err |-> "ErrDecoding"]
    ELSE LET rest == TrimLeftZeros(SubSeq(db, Len(ps) + 1, Len(db)))
         IN  IF rest = <<>> \/ rest[1] # 1
             THEN [m |-> <<>>, err |-> "ErrDecoding"]
             ELSE [m |-> Tail(rest), err |-> "nil"]

\* oaepDecode(h, em, p): [m, err].
oaepDecode(hs, em, lab) ==
    IF Len(em) < 2 * hs + 1 THEN [m |-> <<>>, err |-> "ErrDecoding"]
    ELSE LET sd == SubSeq(em, 1, hs)
             db == SubSeq(em, hs + 1, Len(em))
             sm == mgf(hs, db, hs)
             seed == XorBytes(sd, sm)
             dbm == mgf(hs, seed, Len(em) - hs)
         IN  IF Len(sd) # Len(sm) \/ Len(db) # Len(dbm)
             THEN [m |-> <<>>, err |-> "panic"]
             ELSE oaepUnpad(XorBytes(db, dbm), Sum(hs, lab))

-----------------------------------------------------------------------------
(* package rsa: Encrypt and Decrypt *)

\* Encrypt's end: the bytes of c as they are, not padded to keySize.
cipherBytesUnpadded(c, keySize) == Bytes(c)

\* Encrypt's end: cb = c.Bytes(), left-padded with zeros to keySize bytes.
cipherBytes(c, keySize) ==
    LET cb == Bytes(c)
    IN  IF Len(cb) < keySize THEN Zeros(keySize - Len(cb)) \o cb ELSE cb

\* Encrypt(pub, h, m, p) with the seed oaepEncode reads: [c, err].
Encrypt(pub, hs, m, lab, seed) ==
    LET keySize == (pub.bits + 7) \div 8
    IN  IF Len(m) > keySize - 2 * hs - 2
        THEN [c |-> <<>>, err |-> "ErrMessageTooLarge"]
        ELSE LET enc == oaepEncode(hs, m, lab, keySize - 1, seed)
             IN  IF enc.err # "nil" THEN [c |-> <<>>, err |-> enc.err]
                 ELSE [c |-> cipherBytes(encrypt(pub, SetBytes(enc.em)), keySize),
                       err |-> "nil"]

\* Decrypt's middle with the unblinding left out: the blinded result is
\* returned as it comes from decrypt.
blindedDecryptNotUnblinded(k, c, r) ==
    LET re == Exp(r, k.e, k.n)
        bc == MulMod(SetBytes(c), re, k.n)
    IN  decrypt(k, bc)

\* Decrypt's middle, for the r whose inverse rInv the loop found: r becomes
\* r^e mod n, bc = c * r mod n, bm = decrypt(priv, bc) * rInv mod n.
blindedDecrypt(k, c, r) ==
    LET rInv == ModInverse(r, k.n)[1]
        re == Exp(r, k.e, k.n)
        bc == MulMod(SetBytes(c), re, k.n)
    IN  MulMod(decrypt(k, bc), rInv, k.n)

\* Decrypt handing on the error oaepDecode returned instead of ErrDecryption.
DecryptPassesDecodeError(k, hs, c, lab, r) ==
    LET keySize == (k.bits + 7) \div 8
    IN  IF Len(c) # keySize
        THEN [m |-> <<>>, err |-> "ErrCipherTextWrongLength"]
        ELSE LET eb == Bytes(blindedDecrypt(k, c, r))
                 em == IF Len(eb) < keySize - 1
                       THEN Zeros(keySize - Len(eb) - 1) \o eb
                       ELSE eb
             IN  oaepDecode(hs, em, lab)

\* Decrypt(priv, h, c, p) with the r its loop ends with: [m, err].
Decrypt(k, hs, c, lab, r) ==
    LET keySize == (k.bits + 7) \div 8
    IN  IF Len(c) # keySize
        THEN [m |-> <<>>, err |-> "ErrCipherTextWrongLength"]
        ELSE LET eb == Bytes(blindedDecrypt(k, c, r))
                 em == IF Len(eb) < keySize - 1
                       THEN Zeros(keySize - Len(eb) - 1) \o eb
                       ELSE eb
                 dec == oaepDecode(hs, em, lab)
             IN  IF dec.err # "nil" THEN [m |-> <<>>, err |-> "ErrDecryption"]
                 ELSE [m |-> dec.m, err |-> "nil"]

\* Bounds on what the calls are given.
MaxHashSize == 2
MaxEncLen == 5
MaxMsgByte == 2
MaxLabelByte == 2
MaxSeedByte == 32
MaxBlind == 3
PadMinBits == 25
PadMaxBits == 25
PadSpan == 27

SeqsUpTo(S, k) == UNION {[1 .. j -> S] : j \in 0 .. k}

HashSizes == 1 .. MaxHashSize
Labels == SeqsUpTo(0 .. MaxLabelByte, 1)
Seeds(hs) == [1 .. hs -> 0 .. MaxSeedByte]

\* Messages up to one byte beyond what fits into cap bytes.
Messages(cap) == SeqsUpTo(0 .. MaxMsgByte, IF cap < 0 THEN 0 ELSE cap + 1)

PadKeys == UNION {KeysOf(b, PadSpan) : b \in PadMinBits .. PadMaxBits}

\* Decrypt: values rand.Int(priv.n) can return, the small ones and n - 1, p
\* and q among them.
Blinds(k) == (0 .. MaxBlind) \cup {k.n - 1, k.p, k.q}

InitPad ==
    /\ pc = "idle"
    /\ bits = 0 /\ p = 0 /\ q = 0 /\ n = 0 /\ qn = 0 /\ s = 0 /\ i = 0
    /\ priv = <<>>
    /\ arg = <<>> /\ ret = <<>>
    /\ mutex = 0 /\ reader = "nil" /\ stream = <<>> /\ heap = <<>>

\* enc, err := oaepEncode(h, m, p, l)
oaepEncodeCall ==
    /\ pc = "idle"
    /\ \E hs \in HashSizes :
       \E l \in 2 * hs .. MaxEncLen :
       \E m \in Messages(l - 2 * hs - 1) :
       \E lab \in Labels :
       \E seed \in Seeds(hs) :
          /\ arg' = [hs |-> hs, l |-> l, m |-> m, p |-> lab, seed |-> seed]
          /\ ret' = oaepEncode(hs, m, lab, l, seed)
    /\ pc' = "encoded"
    /\ UNCHANGED keyVars
    /\ UNCHANGED sharedVars

\* dec, err := oaepDecode(h, enc, p2) of the enc that oaepEncode returned.
oaepDecodeCall ==
    /\ pc = "encoded"
    /\ ret.err = "nil"
    /\ \E lab2 \in Labels :
          /\ arg' = [hs |-> arg.hs, l |-> arg.l, m |-> arg.m, p |-> arg.p,
                     seed |-> arg.seed, em |-> ret.em, p2 |-> lab2]
          /\ ret' = oaepDecode(arg.hs, ret.em, lab2)
    /\ pc' = "decoded"
    /\ UNCHANGED keyVars
    /\ UNCHANGED sharedVars

\* c, err := Encrypt(priv.PublicKey(), h, m, p)
EncryptCall ==
    /\ pc = "idle"
    /\ \E k \in PadKeys :
       \E hs \in HashSizes :
       \E m \in Messages((k.bits + 7) \div 8 - 2 * hs - 2) :
       \E lab \in Labels :
       \E seed \in Seeds(hs) :
          /\ priv' = <<k>>
          /\ arg' = [hs |-> hs, m |-> m, p |-> lab, seed |-> seed]
          /\ ret' = Encrypt(PublicKey(k), hs, m, lab, seed)
    /\ pc' = "Encrypted"
    /\ UNCHANGED <<bits, p, q, n, qn, s, i>>
    /\ UNCHANGED sharedVars

\* d, err := Decrypt(priv, h, c, p2) of the c that Encrypt returned; the loop
\* draws r until ModInverse(r, n) is not nil.
DecryptCall ==
    /\ pc = "Encrypted"
    /\ ret.err = "nil"
    /\ \E lab2 \in Labels :
       \E r \in Blinds(priv[1]) :
          /\ ModInverse(r, priv[1].n) # <<>>
          /\ arg' = [hs |-> arg.hs, m |-> arg.m, p |-> arg.p, seed |-> arg.seed,
                     c |-> ret.c, p2 |-> lab2, r |-> r]
          /\ ret' = Decrypt(priv[1], arg.hs, ret.c, lab2, r)
    /\ pc' = "Decrypted"
    /\ UNCHANGED keyVars
    /\ UNCHANGED sharedVars

NextPad == oaepEncodeCall \/ oaepDecodeCall \/ EncryptCall \/ DecryptCall

SpecPad == InitPad /\ [][NextPad]_vars

-----------------------------------------------------------------------------
(* Properties of the padding and cipher layer *)

KeySize(k) == (k.bits + 7) \div 8

C6_LabelBinding ==
    /\ (pc = "decoded" /\ Sum(arg.hs, arg.p2) # Sum(arg.hs, arg.p)) =>
          ret = [m |-> <<>>, err |-> "ErrDecoding"]
    /\ (pc = "Decrypted" /\ Sum(arg.hs, arg.p2) # Sum(arg.hs, arg.p)) =>
          ret = [m |-> <<>>, err |-> "ErrDecryption"]

\* Decrypt was given a label with another hash and returned the error.
C6_Witness ==
    /\ pc = "Decrypted"
    /\ Sum(arg.hs, arg.p2) # Sum(arg.hs, arg.p)
    /\ ret.err = "ErrDecryption"

\* C7: for a message of at most l - 2*hs - 1 bytes oaepEncode returns exactly
\* l bytes, and oaepDecode of them under the same label returns the message.
C7_OaepRoundTrip ==
    /\ (pc = "encoded" /\ Len(arg.m) <= arg.l - 2 * arg.hs - 1) =>
          ret.err = "nil" /\ Len(ret.em) = arg.l
    /\ (pc = "decoded" /\ arg.p2 = arg.p) =>
          ret = [m |-> arg.m, err |-> "nil"]

\* A message of the greatest length that fits, beginning with a zero byte,
\* came back.
C7_Witness ==
    /\ pc = "decoded"
    /\ arg.p2 = arg.p
    /\ Len(arg.m) = arg.l - 2 * arg.hs - 1
    /\ Len(arg.m) > 1
    /\ arg.m[1] = 0
    /\ ret.m = arg.m

\* C8: the ciphertext a successful Encrypt returns has exactly
\* keySize = ceil(bits/8) bytes: the big-endian bytes of em^e mod n behind
\* zero bytes.
C8_CipherTextLength ==
    (pc = "Encrypted" /\ ret.err = "nil") =>
        LET k == priv[1]
            em == oaepEncode(arg.hs, arg.m, arg.p, KeySize(k) - 1, arg.seed).em
            cb == Bytes(Exp(SetBytes(em), k.e, k.n))
        IN  /\ Len(ret.c) = (k.bits + 7) \div 8
            /\ Len(cb) <= Len(ret.c)
            /\ ret.c = Zeros(Len(ret.c) - Len(cb)) \o cb

\* A ciphertext that had to be padded.
C8_Witness == pc = "Encrypted" /\ ret.err = "nil" /\ ret.c[1] = 0

-----------------------------------------------------------------------------
(* primes.Jacobi, iteration by iteration *)

MaxJacobi == 999

InitJacobi ==
    /\ pc = "idle"
    /\ bits = 0 /\ p = 0 /\ q = 0 /\ n = 0 /\ qn = 0 /\ s = 0 /\ i = 0
    /\ priv = <<>>
    /\ arg = <<>> /\ ret = <<>>
    /\ mutex = 0 /\ reader = "nil" /\ stream = <<>> /\ heap = <<>>

\* Jacobi(a, b) is called with a >= 0 and b odd: s = 1.
JacobiCall ==
    /\ pc = "idle"
    /\ \E a \in 0 .. MaxJacobi :
       \E b \in {x \in 1 .. MaxJacobi : x % 2 = 1} :
          /\ arg' = [a |-> a, b |-> b]
          /\ ret' = [a |-> a, b |-> b, s |-> 1]
    /\ pc' = "Jacobi"
    /\ UNCHANGED keyVars
    /\ UNCHANGED sharedVars

\* One iteration that goes on.
JacobiIterate ==
    /\ pc = "Jacobi"
    /\ ~JacobiIter(ret.a, ret.b, ret.s).done
    /\ ret' = [a |-> JacobiIter(ret.a, ret.b, ret.s).a,
               b |-> JacobiIter(ret.a, ret.b, ret.s).b,
               s |-> JacobiIter(ret.a, ret.b, ret.s).s]
    /\ UNCHANGED <<pc, arg>>
    /\ UNCHANGED keyVars
    /\ UNCHANGED sharedVars

\* The iteration that returns.
JacobiReturn ==
    /\ pc = "Jacobi"
    /\ JacobiIter(ret.a, ret.b, ret.s).done
    /\ ret' = JacobiIter(ret.a, ret.b, ret.s).val
    /\ pc' = "returned"
    /\ UNCHANGED arg
    /\ UNCHANGED keyVars
    /\ UNCHANGED sharedVars

NextJacobi == JacobiCall \/ JacobiIterate \/ JacobiReturn

SpecJacobi == InitJacobi /\ [][NextJacobi]_vars

\* The Legendre symbol (a/f) of a prime f, by its definition: 0 when f divides
\* a, 1 when a is a square mod f, -1 otherwise.
Legendre(a, f) ==
    IF a % f = 0 THEN 0
    ELSE IF \E x \in 1 .. f - 1 : (x * x) % f = a % f THEN 1 ELSE -1

LeastFactor(b) == CHOOSE f \in 2 .. b : b % f = 0 /\ \A g \in 2 .. f - 1 : b % g # 0

\* The Jacobi symbol (a/b) of an odd b >= 1, by its definition: the product of
\* the Legendre symbols of the prime factors of b.
RECURSIVE JacobiSymbol(_, _)
JacobiSymbol(a, b) ==
    IF b = 1 THEN 1
    ELSE Legendre(a, LeastFactor(b)) * JacobiSymbol(a, b \div LeastFactor(b))

\* C9: Jacobi(a, b) is the Jacobi symbol (a/b) for every a >= 0 and odd b >= 1:
\* 0 exactly when gcd(a, b) > 1, and 1 when b = 1; and the loop terminates, its
\* b staying positive and becoming smaller with every iteration.
C9_JacobiSymbol ==
    /\ [](pc = "returned" =>
            /\ ret = JacobiSymbol(arg.a, arg.b)
            /\ ret = Jacobi(arg.a, arg.b)
            /\ (ret = 0) = (GCD(arg.a, arg.b)[1] > 1)
            /\ arg.b = 1 => ret = 1)
    /\ [][(pc = "Jacobi" /\ pc' = "Jacobi") => (ret'.b >= 1 /\ ret'.b < ret.b)]_vars

\* Jacobi returned -1 for a composite b, after factors of two were taken out
\* of a.
C9_Witness ==
    /\ pc = "returned"
    /\ ret = -1
    /\ ~IsPrime(arg.b)
    /\ arg.a % 2 = 0
    /\ arg.a > arg.b

-----------------------------------------------------------------------------
(* rand.Int, pass by pass *)

MaxRandMax == 40
MaxPasses == 3

InitRand ==
    /\ pc = "idle"
    /\ bits = 0 /\ p = 0 /\ q = 0 /\ n = 0 /\ qn = 0 /\ s = 0 /\ i = 0
    /\ priv = <<>>
    /\ arg = <<>> /\ ret = <<>>
    /\ mutex = 0 /\ reader = "nil" /\ stream = <<>> /\ heap = <<>>

\* The values the (n+7)/8 bytes of buf can spell.
Bufs(max) == 0 .. Pow2(8 * BufLen(max)) - 1

\* rand.Int(max) is called, max > 0: no byte is read yet.
IntCall ==
    /\ pc = "idle"
    /\ \E max \in 1 .. MaxRandMax : arg' = [max |-> max]
    /\ ret' = [passes |-> 0, read |-> 0, candidate |-> 0]
    /\ pc' = "Int"
    /\ UNCHANGED keyVars
    /\ UNCHANGED sharedVars

\* A pass reads buf and makes a candidate that is not below max: the loop
\* goes on.
IntRetry ==
    /\ pc = "Int"
    /\ ret.passes < MaxPasses
    /\ \E buf \in Bufs(arg.max) :
          /\ ~(Candidate(arg.max, buf) < arg.max)
          /\ ret' = [passes |-> ret.passes + 1,
                     read |-> ret.read + BufLen(arg.max),
                     candidate |-> Candidate(arg.max, buf)]
    /\ UNCHANGED <<pc, arg>>
    /\ UNCHANGED keyVars
    /\ UNCHANGED sharedVars

\* A pass reads buf and makes a candidate below max: it is returned.
IntReturn ==
    /\ pc = "Int"
    /\ ret.passes < MaxPasses
    /\ \E buf \in Bufs(arg.max) :
          /\ Candidate(arg.max, buf) < arg.max
          /\ ret' = [passes |-> ret.passes + 1,
                     read |-> ret.read + BufLen(arg.max),
                     candidate |-> Candidate(arg.max, buf)]
    /\ pc' = "returned"
    /\ UNCHANGED arg
    /\ UNCHANGED keyVars
    /\ UNCHANGED sharedVars

\* Read returns an error (the device cannot be opened or read in full): Int
\* returns nil and the error.
IntReadError ==
    /\ pc = "Int"
    /\ ret.passes < MaxPasses
    /\ ret' = [passes |-> ret.passes + 1, read |-> ret.read, err |-> "read"]
    /\ pc' = "failed"
    /\ UNCHANGED arg
    /\ UNCHANGED keyVars
    /\ UNCHANGED sharedVars

NextRand == IntCall \/ IntRetry \/ IntReturn \/ IntReadError

SpecRand == InitRand /\ [][NextRand]_vars

\* The number of byte strings a pass can read that make the candidate v.
Preimages(max, v) == Cardinality({buf \in Bufs(max) : Candidate(max, buf) = v})

\* C10: rand.Int(max), max > 0, returns only values of [0, max); each value of
\* [0, max) is the candidate of the same number (at least one) of the byte
\* strings a pass can read; a candidate >= max is never returned; and max = 1
\* returns 0 without a byte read.
C10_UniformInt ==
    /\ pc = "returned" => ret.candidate \in 0 .. arg.max - 1
    /\ (pc = "Int" /\ ret.passes = 0) =>
          /\ \A v \in 0 .. arg.max - 1 :
                Preimages(arg.max, v) =
                    Pow2(8 * BufLen(arg.max) - BitLen(arg.max - 1))
          /\ rand_Int(arg.max) = 0 .. arg.max - 1
          /\ rand_Int(arg.max) =
                {Candidate(arg.max, buf) : buf \in Bufs(arg.max)} \cap 0 .. arg.max - 1
    /\ (pc = "returned" /\ arg.max = 1) => (ret.candidate = 0 /\ ret.read = 0)

\* The greatest value below max was returned after a candidate was rejected.
C10_Witness ==
    /\ pc = "returned"
    /\ ret.passes > 1
    /\ ret.candidate = arg.max - 1
    /\ arg.max > 2

-----------------------------------------------------------------------------
(* rand.Read under concurrent callers *)

NumCallers == 2
MaxReadLen == 2
MaxStream == 4

Callers == 1 .. NumCallers

InitRead ==
    /\ pc = [c \in Callers |-> "idle"]
    /\ bits = 0 /\ p = 0 /\ q = 0 /\ n = 0 /\ qn = 0 /\ s = 0 /\ i = 0
    /\ priv = <<>>
    /\ arg = [c \in Callers |-> 0]
    /\ ret = [c \in Callers |-> [got |-> <<>>, err |-> "nil"]]
    /\ mutex = 0 /\ reader = "nil"
    /\ stream = [opens |-> 0, pos |-> 0]
    /\ heap = <<>>

\* l.Lock() taken without waiting for the mutex to be free.
LockNotExclusive(c) == mutex' = c

\* l.Lock() by caller c: it goes through only when no caller holds l.
Lock(c) == mutex = 0 /\ mutex' = c

\* The deferred l.Unlock().
Unlock(c) == mutex' = 0

\* Caller c calls Read(b) with len(b) = k.
ReadCall(c) ==
    /\ pc[c] = "idle"
    /\ \E k \in 0 .. MaxReadLen : arg' = [arg EXCEPT ![c] = k]
    /\ ret' = [ret EXCEPT ![c] = [got |-> <<>>, err |-> "nil"]]
    /\ pc' = [pc EXCEPT ![c] = "Lock"]
    /\ UNCHANGED <<keyVars, mutex, reader, stream, heap>>

\* l.Lock() returns in caller c.
ReadLock(c) ==
    /\ pc[c] = "Lock"
    /\ Lock(c)
    /\ pc' = [pc EXCEPT ![c] = "locked"]
    /\ UNCHANGED <<keyVars, arg, ret, reader, stream, heap>>

\* reader == nil and os.Open succeeds.
ReadOpen(c) ==
    /\ pc[c] = "locked"
    /\ reader = "nil"
    /\ reader' = "open"
    /\ stream' = [stream EXCEPT !.opens = @ + 1]
    /\ pc' = [pc EXCEPT ![c] = "ReadFull"]
    /\ UNCHANGED <<keyVars, arg, ret, mutex, heap>>

\* reader == nil and os.Open fails: reader is assigned the nil *os.File (an
\* interface value that is not nil any more) and Read returns 0 and the error.
ReadOpenFail(c) ==
    /\ pc[c] = "locked"
    /\ reader = "nil"
    /\ reader' = "invalid"
    /\ ret' = [ret EXCEPT ![c].err = "open"]
    /\ Unlock(c)
    /\ pc' = [pc EXCEPT ![c] = "idle"]
    /\ UNCHANGED <<keyVars, arg, stream, heap>>

\* reader != nil: the device is not opened again.
ReadOpened(c) ==
    /\ pc[c] = "locked"
    /\ reader # "nil"
    /\ pc' = [pc EXCEPT ![c] = "ReadFull"]
    /\ UNCHANGED <<keyVars, arg, ret, mutex, reader, stream, heap>>

\* io.ReadFull gets the next byte of the stream.
ReadFullByte(c) ==
    /\ pc[c] = "ReadFull"
    /\ reader = "open"
    /\ Len(ret[c].got) < arg[c]
    /\ stream.pos < MaxStream
    /\ stream' = [stream EXCEPT !.pos = @ + 1]
    /\ ret' = [ret EXCEPT ![c].got = Append(@, stream.pos + 1)]
    /\ UNCHANGED <<keyVars, pc, arg, mutex, reader, heap>>

\* io.ReadFull fails before b is full (the device fails, or reader holds the
\* nil file): Read returns the error.
ReadFullError(c) ==
    /\ pc[c] = "ReadFull"
    /\ Len(ret[c].got) < arg[c]
    /\ ret' = [ret EXCEPT ![c].err = "read"]
    /\ Unlock(c)
    /\ pc' = [pc EXCEPT ![c] = "idle"]
    /\ UNCHANGED <<keyVars, arg, reader, stream, heap>>

\* b is full: Read returns len(b) and nil.
ReadReturn(c) ==
    /\ pc[c] = "ReadFull"
    /\ Len(ret[c].got) = arg[c]
    /\ Unlock(c)
    /\ pc' = [pc EXCEPT ![c] = "idle"]
    /\ UNCHANGED <<keyVars, arg, ret, reader, stream, heap>>

NextRead ==
    \E c \in Callers :
        \/ ReadCall(c)
        \/ ReadLock(c)
        \/ ReadOpen(c)
        \/ ReadOpenFail(c)
        \/ ReadOpened(c)
        \/ ReadFullByte(c)
        \/ ReadFullError(c)
        \/ ReadReturn(c)

SpecRead == InitRead /\ [][NextRead]_vars

\* Caller c is between l.Lock() and the deferred l.Unlock().
InRead(c) == pc[c] \in {"locked", "ReadFull"}

\* C11: at most one caller at a time is inside Read's locked section, the one
\* holding l; the device is opened successfully at most once; the bytes a call
\* receives are one contiguous run of the stream.
C11_ReadExclusive ==
    /\ \A c \in Callers : InRead(c) => mutex = c
    /\ \A c, d \in Callers : (InRead(c) /\ InRead(d)) => c = d
    /\ stream.opens <= 1
    /\ (reader = "open") = (stream.opens = 1)
    /\ \A c \in Callers :
          /\ \A j \in 1 .. Len(ret[c].got) - 1 : ret[c].got[j + 1] = ret[c].got[j] + 1
          /\ \A d \in Callers \ {c} :
                \A j \in 1 .. Len(ret[c].got) :
                   \A k \in 1 .. Len(ret[d].got) : ret[c].got[j] # ret[d].got[k]

\* A caller waits at l.Lock() while another one, not the first to read the
\* stream, is between the two bytes of its read.
C11_Witness ==
    /\ pc[1] = "ReadFull"
    /\ pc[2] = "Lock"
    /\ arg[1] = 2
    /\ Len(ret[1].got) = 1
    /\ ret[1].got[1] > 1

-----------------------------------------------------------------------------
(* Decrypt on ciphertexts made by someone holding the public key *)

MaxForgeSeed == 1
MaxForgeByte == 2

\* The masking of oaepEncode applied to a data block db of any content.
oaepMask(hs, db, seed) ==
    LET mdb == XorBytes(db, mgf(hs, seed, Len(db)))
    IN  XorBytes(seed, mgf(hs, mdb, hs)) \o mdb

\* The data blocks tried: the first byte taken from the label's hash or not,
\* the others small.
ForgedBlocks(hs, lab, len) ==
    IF len <= 0 THEN {<<>>}
    ELSE {<<b>> \o rest : b \in {Sum(hs, lab)[1], (Sum(hs, lab)[1] + 1) % 256},
                          rest \in [1 .. len - 1 -> 0 .. MaxForgeByte]}

\* Someone encrypts a data block of their choice under the public key, and
\* may cut the last byte off the ciphertext or put a zero byte before it.
ForgeCall ==
    /\ pc = "idle"
    /\ \E k \in PadKeys :
       \E hs \in HashSizes :
       \E lab \in Labels :
       \E seed \in [1 .. hs -> 0 .. MaxForgeSeed] :
       \E db \in ForgedBlocks(hs, lab, KeySize(k) - 1 - hs) :
       \E cut \in {"whole", "short", "long"} :
          LET cb == cipherBytes(encrypt(PublicKey(k),
                                        SetBytes(oaepMask(hs, db, seed))),
                                KeySize(k))
          IN  /\ priv' = <<k>>
              /\ arg' = [hs |-> hs, p |-> lab, db |-> db, seed |-> seed,
                         c |-> CASE cut = "whole" -> cb
                                 [] cut = "short" -> SubSeq(cb, 1, Len(cb) - 1)
                                 [] cut = "long" -> <<0>> \o cb]
    /\ ret' = <<>>
    /\ pc' = "forged"
    /\ UNCHANGED <<bits, p, q, n, qn, s, i>>
    /\ UNCHANGED sharedVars

\* m, err := Decrypt(priv, h, c, p) of that ciphertext.
DecryptForgedCall ==
    /\ pc = "forged"
    /\ \E r \in Blinds(priv[1]) :
          /\ Len(arg.c) = KeySize(priv[1]) => ModInverse(r, priv[1].n) # <<>>
          /\ ret' = Decrypt(priv[1], arg.hs, arg.c, arg.p, r)
    /\ pc' = "answered"
    /\ UNCHANGED <<keyVars, arg>>
    /\ UNCHANGED sharedVars

NextForge == ForgeCall \/ DecryptForgedCall

SpecForge == InitPad /\ [][NextForge]_vars

\* The check of oaepDecode that the encoding of data block db fails, if any.
DecodeFailure(hs, db, lab) ==
    LET rest == TrimLeftZeros(SubSeq(db, hs + 1, Len(db)))
    IN  CASE hs + Len(db) < 2 * hs + 1 -> "short"
          [] OTHER ->
             IF SubSeq(db, 1, hs) # Sum(hs, lab) THEN "label"
             ELSE IF rest = <<>> THEN "empty"
             ELSE IF rest[1] # 1 THEN "separator"
             ELSE "none"

\* C12: Decrypt returns ErrCipherTextWrongLength exactly when len(c) is not
\* ceil(bits/8); otherwise it returns ErrDecryption and no plaintext whichever
\* check of oaepDecode fails, and the plaintext and nil when none fails; it
\* returns no other error.
C12_DecryptErrors ==
    pc = "answered" =>
        /\ ret.err \in {"nil", "ErrCipherTextWrongLength", "ErrDecryption"}
        /\ (ret.err = "ErrCipherTextWrongLength") = (Len(arg.c) # KeySize(priv[1]))
        /\ ret.err # "nil" => ret.m = <<>>
        /\ Len(arg.c) = KeySize(priv[1]) =>
              (ret.err = "ErrDecryption") = (DecodeFailure(arg.hs, arg.db, arg.p) # "none")

\* Decrypt answered ErrDecryption to an encoding with the right label hash and
\* nothing but zero bytes after it.
C12_Witness ==
    /\ pc = "answered"
    /\ DecodeFailure(arg.hs, arg.db, arg.p) = "empty"
    /\ Len(arg.c) = KeySize(priv[1])
    /\ ret = [m |-> <<>>, err |-> "ErrDecryption"]

-----------------------------------------------------------------------------
(* Further properties of NewKey and genSecrets *)

\* C13: the eight numeric fields n, e, d, p, q, dP, dQ, qInv of every key
\* NewKey returns are non-negative; stated for the keys whose p and q are
\* distinct primes.
C13_NonNegativeFields ==
    (Returned /\ IsPrime(priv[1].p) /\ IsPrime(priv[1].q) /\ priv[1].p # priv[1].q) =>
        /\ priv[1].n >= 0 /\ priv[1].e >= 0 /\ priv[1].d >= 0
        /\ priv[1].p >= 0 /\ priv[1].q >= 0
        /\ priv[1].dP >= 0 /\ priv[1].dQ >= 0
        /\ \A j \in 1 .. Len(priv[1].qInv) : priv[1].qInv[j] >= 0

\* C18: genSecrets never reaches panic(nb): with p and q prime, n = p*q never
\* has fewer bits than asked for.
C18_PanicUnreachable ==
    ~(pc = "panic" /\ bits >= MinBits /\ IsPrime(p) /\ IsPrime(q))

-----------------------------------------------------------------------------
(* PrivateKey.PublicKey and the big.Int objects the two keys point to *)

MaxSetValue == 3

\* The fields of a *PrivateKey in the order NewKey allocates their objects.
KeyFields == <<"n", "e", "d", "p", "q", "dP", "dQ", "qInv">>

\* The value of field f of the key k of RawKeys.
FieldValue(k, f) == IF f = "qInv" THEN k.qInv[1] ELSE k[f]

\* NewKey returned a key: each numeric field is a pointer to an object of its
\* own, heap[address] is the value of the object.
InitAlias ==
    /\ pc = "key"
    /\ bits = 0 /\ p = 0 /\ q = 0 /\ n = 0 /\ qn = 0 /\ s = 0 /\ i = 0
    /\ \E k \in RawKeys :
          /\ heap = [a \in 1 .. Len(KeyFields) |-> FieldValue(k, KeyFields[a])]
          /\ arg = [n |-> k.n, e |-> k.e]
          /\ priv = <<[n |-> 1, e |-> 2, d |-> 3, p |-> 4, q |-> 5,
                       dP |-> 6, dQ |-> 7, qInv |-> 8, bits |-> k.bits]>>
    /\ ret = <<>>
    /\ mutex = 0 /\ reader = "nil" /\ stream = <<>>

\* pub := priv.PublicKey(): the fields n, e and bits are copied, n and e being
\* pointers.
PublicKeyCall ==
    /\ pc = "key"
    /\ ret' = PublicKey(priv[1])
    /\ pc' = "public"
    /\ UNCHANGED <<keyVars, arg, mutex, reader, stream, heap>>

\* The object the public key's n or e points to is given another value (a
\* big.Int method with that object as its receiver).
SetThroughPublic ==
    /\ pc = "public"
    /\ \E f \in {"n", "e"} :
       \E v \in 0 .. MaxSetValue :
          heap' = [heap EXCEPT ![ret[f]] = v]
    /\ pc' = "setPublic"
    /\ UNCHANGED <<keyVars, arg, ret, mutex, reader, stream>>

\* The object the private key's n or e points to is given another value.
SetThroughPrivate ==
    /\ pc = "public"
    /\ \E f \in {"n", "e"} :
       \E v \in 0 .. MaxSetValue :
          heap' = [heap EXCEPT ![priv[1][f]] = v]
    /\ pc' = "setPrivate"
    /\ UNCHANGED <<keyVars, arg, ret, mutex, reader, stream>>

NextAlias == PublicKeyCall \/ SetThroughPublic \/ SetThroughPrivate

SpecAlias == InitAlias /\ [][NextAlias]_vars

\* C14: the public key holds n, e and bits equal to the private key's, in
\* objects of its own: a change through the public key leaves the n and e seen
\* through the private key as they were, and the other way round.
C14_PublicKeyIsCopy ==
    /\ pc = "public" =>
          /\ heap[ret.n] = heap[priv[1].n]
          /\ heap[ret.e] = heap[priv[1].e]
          /\ ret.bits = priv[1].bits
    /\ pc = "setPublic" =>
          heap[priv[1].n] = arg.n /\ heap[priv[1].e] = arg.e
    /\ pc = "setPrivate" =>
          heap[ret.n] = arg.n /\ heap[ret.e] = arg.e

-----------------------------------------------------------------------------
(* package primes: Is, FindNext and Find as they are called *)

MaxIsArg == 45
MaxStart == 45
MaxFindBits == 7

\* The values Is is called with: negative ones, 0, 1, even ones among them.
IsArgs == -2 .. MaxIsArg

\* Is(c, .): the witnesses with which a round goes on, and those with which
\* it returns false.
Passing(c) == {a \in Witnesses(c) : IsRound(c, a)}

Failing(c) == {a \in Witnesses(c) : ~IsRound(c, a)}

InitPrimes ==
    /\ pc = "idle"
    /\ bits = 0 /\ p = 0 /\ q = 0 /\ n = 0 /\ qn = 0 /\ s = 0 /\ i = 0
    /\ priv = <<>>
    /\ arg = <<>> /\ ret = <<>>
    /\ mutex = 0 /\ reader = "nil" /\ stream = <<>> /\ heap = <<>>

\* ok, err := Is(c, k)
IsCall ==
    /\ pc = "idle"
    /\ \E c \in IsArgs :
       \E k \in 0 .. Rounds :
          /\ arg' = [fn |-> "Is", p |-> c, n |-> k]
          /\ s' = c
    /\ i' = 0
    /\ ret' = [draws |-> 0, ok |-> "none"]
    /\ pc' = "Is"
    /\ UNCHANGED <<bits, p, q, n, qn, priv>>
    /\ UNCHANGED sharedVars

\* FindNext(start, k): the first candidate is start with bit 0 set.
FindNextCall ==
    /\ pc = "idle"
    /\ \E start \in 0 .. MaxStart :
       \E k \in 0 .. Rounds :
          /\ arg' = [fn |-> "FindNext", s |-> start, n |-> k]
          /\ s' = FindNext(start)
    /\ i' = 0
    /\ ret' = [draws |-> 0, ok |-> "none"]
    /\ pc' = "Is"
    /\ UNCHANGED <<bits, p, q, n, qn, priv>>
    /\ UNCHANGED sharedVars

\* Find(b, Rounds): (b+7)/8 bytes are read, bit b-1 is set when the number
\* they spell has fewer than b bits, and FindNext is called with it.
FindCall ==
    /\ pc = "idle"
    /\ \E b \in MaxFindBits - 1 .. MaxFindBits :
       \E buf \in 0 .. Pow2(8 * ((b + 7) \div 8)) - 1 :
          /\ arg' = [fn |-> "Find", b |-> b, s |-> Find(b, buf), n |-> Rounds]
          /\ s' = FindNext(Find(b, buf))
    /\ i' = 0
    /\ ret' = [draws |-> 0, ok |-> "none"]
    /\ pc' = "Is"
    /\ UNCHANGED <<bits, p, q, n, qn, priv>>
    /\ UNCHANGED sharedVars

\* Is: i < n and rand.Int(limit) is called with limit = s - 2 <= 0: no pass
\* of its loop returns.
IsIntNeverReturns ==
    /\ pc = "Is"
    /\ i < arg.n
    /\ s - 2 <= 0
    /\ pc' = "Int"
    /\ UNCHANGED <<keyVars, arg, ret>>
    /\ UNCHANGED sharedVars

\* Is: the round with a drawn witness a goes on to the next round.
IsPass ==
    /\ pc = "Is"
    /\ i < arg.n
    /\ Passing(s) # {}
    /\ i' = i + 1
    /\ ret' = [ret EXCEPT !.draws = @ + 1]
    /\ UNCHANGED <<pc, bits, p, q, n, qn, s, priv, arg>>
    /\ UNCHANGED sharedVars

\* Is: the round with a drawn witness a returns false; Is was called directly.
IsFalse ==
    /\ pc = "Is"
    /\ arg.fn = "Is"
    /\ i < arg.n
    /\ Failing(s) # {}
    /\ ret' = [draws |-> ret.draws + 1, ok |-> "false"]
    /\ pc' = "returned"
    /\ UNCHANGED <<keyVars, arg>>
    /\ UNCHANGED sharedVars

\* Is returns false inside FindNext: s.Add(s, two) and Is is called again.
FindNextAdd ==
    /\ pc = "Is"
    /\ arg.fn # "Is"
    /\ i < arg.n
    /\ Failing(s) # {}
    /\ s' = s + 2
    /\ i' = 0
    /\ ret' = [ret EXCEPT !.draws = 0]
    /\ UNCHANGED <<pc, bits, p, q, n, qn, priv, arg>>
    /\ UNCHANGED sharedVars

\* Is: the loop is over, Is returns true (and FindNext returns s).
IsTrue ==
    /\ pc = "Is"
    /\ i = arg.n
    /\ ret' = [ret EXCEPT !.ok = "true"]
    /\ pc' = "returned"
    /\ UNCHANGED <<keyVars, arg>>
    /\ UNCHANGED sharedVars

NextPrimes ==
    \/ IsCall
    \/ FindNextCall
    \/ FindCall
    \/ IsIntNeverReturns
    \/ IsPass
    \/ IsFalse
    \/ FindNextAdd
    \/ IsTrue

SpecPrimes == InitPrimes /\ [][NextPrimes]_vars

-----------------------------------------------------------------------------
(* Properties of Is, FindNext and Find *)

OddComposite(c) == c >= 9 /\ c % 2 = 1 /\ ~IsPrime(c)

RECURSIVE Power(_, _)
Power(x, k) == IF k = 0 THEN 1 ELSE x * Power(x, k - 1)

\* C15: for an odd composite c >= 9 at least half of the witnesses of [2, c)
\* make a round return false, so that of all sequences of n witnesses at most
\* one in 2^n is accepted; Is returns false at the first round that fails and
\* true only after n rounds.
C15_Soundness ==
    /\ (pc = "Is" /\ OddComposite(s)) =>
          /\ 2 * Cardinality(Failing(s)) >= Cardinality(Witnesses(s))
          /\ Power(2, arg.n) * Power(Cardinality(Passing(s)), arg.n)
                <= Power(Cardinality(Witnesses(s)), arg.n)
    /\ (pc = "returned" /\ arg.fn = "Is" /\ ret.ok = "false") =>
          ret.draws = i + 1
    /\ (pc = "returned" /\ arg.fn = "Is" /\ ret.ok = "true") =>
          i = arg.n /\ ret.draws = arg.n

\* Is returned false for an odd composite that had passed a round before.
C15_Witness ==
    /\ pc = "returned"
    /\ arg.fn = "Is"
    /\ OddComposite(arg.p)
    /\ ret.ok = "false"
    /\ i >= 1

\* C16: for an even p and for p <= 1, Is(p, n) returns false without drawing
\* a witness; stated for n >= 1.
C16_TrivialRejection ==
    (pc # "idle" /\ arg.fn = "Is" /\ arg.n >= 1 /\ (arg.p % 2 = 0 \/ arg.p <= 1)) =>
        /\ ret.draws = 0
        /\ pc # "Int"
        /\ pc = "returned" => ret.ok = "false"

\* C17: the candidate Find(b, n) hands to FindNext has exactly b bits, and the
\* first number tested is odd.
C17_FindExactBits ==
    (pc # "idle" /\ arg.fn = "Find") =>
        /\ BitLen(arg.s) = arg.b
        /\ Bit(arg.s, arg.b - 1) = 1
        /\ s % 2 = 1

\* C19: for an odd prime p every witness a of [2, p) has Jacobi(a, p) # 0 and
\* a^((p-1)/2) mod p = Jacobi(a, p) mod p, so no round fails and Is(p, n)
\* returns true for every n >= 0; FindNext therefore leaves no odd prime
\* between its first candidate and the one under test.
C19_Completeness ==
    /\ (pc = "Is" /\ IsPrime(s) /\ s >= 3) =>
          /\ Failing(s) = {}
          /\ \A a \in Witnesses(s) :
                /\ Jacobi(a, s) # 0
                /\ Exp(a, (s - 1) \div 2, s) = Jacobi(a, s) % s
    /\ (pc = "returned" /\ arg.fn = "Is" /\ IsPrime(arg.p) /\ arg.p >= 3) =>
          ret.ok = "true"
    /\ (pc \in {"Is", "returned"} /\ arg.fn \in {"FindNext", "Find"}) =>
          \A x \in FindNext(arg.s) .. s - 1 : ~(IsPrime(x) /\ x % 2 = 1)

\* FindNext returned a prime after it went past composites.
C19_Witness ==
    /\ pc = "returned"
    /\ arg.fn = "FindNext"
    /\ arg.n = Rounds
    /\ IsPrime(s)
    /\ s > FindNext(arg.s) + 2
    /\ ret.ok = "true"

====
